---- MODULE Spec2Model ----
(***************************************************************************)
(* A model of SeenUnseenScraper (scraper.py): the URL classifiers and the  *)
(* episode metadata extractor as operators over character sequences, and   *)
(* get_books as a state machine over the pages the remote site returns.    *)
(* A string is a sequence of one-character strings.                        *)
(***************************************************************************)
EXTENDS Integers, Sequences, FiniteSets, TLC

VARIABLES
    \* ---- the scraper object and one get_books invocation ----
    log_filepath,      \* self.log_filepath: a path, or NoPath for None
    req_delay_second,  \* self.req_delay_second: seconds; 0 stands for None and for 0
    log_file,          \* self.log_file: "None" or "open"
    pc,                \* where the control of get_books is
    url,               \* the argument of the pending / last __get_page_soup call
    base_page,         \* line 121: what __get_page_soup returned for the index page,
                       \* until line 125 has read it
    ep_page,           \* line 135: what it returned for the episode of this iteration
    ep_urls,           \* the set built at line 125
    todo,              \* the elements of ep_urls the for loop has not yielded yet
    df_list,           \* line 128: a sequence of per-episode frames (sequences of rows)
    result,            \* what get_books hands to its caller
    log_lines,         \* the lines written through the current log handle
    \* ---- history of the current invocation (not program state) ----
    fetched,           \* per URL: the outcomes of the requests made for it
    opens,             \* open() calls of this invocation
    closes,            \* close() calls of this invocation
    slept,             \* time.sleep calls of this invocation
    ep_links,          \* the length of the list line 125 built, before set()
    \* ---- the classifier / extractor applied to one input URL ----
    u_in,              \* the input: its components and its text
    u_fn,              \* the function applied ("none" before the call)
    u_out              \* its outcome

pvars == <<log_filepath, req_delay_second, log_file, pc, url, base_page, ep_page, ep_urls,
           todo, df_list, result, log_lines, fetched, opens, closes, slept, ep_links>>
uvars == <<u_in, u_fn, u_out>>
vars == <<pvars, uvars>>

\* ------------------------------------------------------------------ bounds
MaxIndexAnchors == 2
MaxPageAnchors == 2
MaxSubLen == 2
MaxTldLen == 2
MaxMonth == 13
MaxDay == 32
MaxEpisode == 2

\* ------------------------------------------------------------- characters
Digits == {"0", "1", "2", "3", "4", "5", "6", "7", "8", "9"}
Lower == {"a", "b", "c", "d", "e", "f", "g", "h", "i", "j", "k", "l", "m",
          "n", "o", "p", "q", "r", "s", "t", "u", "v", "w", "x", "y", "z"}

DigitChar == <<"0", "1", "2", "3", "4", "5", "6", "7", "8", "9">>

DigitVal(c) == CHOOSE v \in 0..9 : DigitChar[v + 1] = c

\* str(n) for n >= 0: decimal, no padding.
RECURSIVE ToDigits(_)
ToDigits(n) == IF n < 10 THEN <<DigitChar[n + 1]>>
               ELSE Append(ToDigits(n \div 10), DigitChar[(n % 10) + 1])

\* int(s) for a non-empty sequence of ASCII digits (leading zeros allowed).
RECURSIVE ParseInt(_)
ParseInt(s) == IF Len(s) = 0 THEN 0
               ELSE 10 * ParseInt(SubSeq(s, 1, Len(s) - 1)) + DigitVal(s[Len(s)])

\* ------------------------------------------------------------ re.match
\* A pattern is a sequence of tokens.  A token is a run of literal
\* characters (q = "lit", one way to match), or a character class (a set, or
\* "any character but newline" for an unescaped dot) with a quantifier among
\* "1", "?", "*", "+".  re.match anchors at the start only, is greedy and
\* backtracks.
Lits(s) == [lit |-> s, cls |-> {}, any |-> FALSE, q |-> "lit"]
Cls(S, quant) == [lit |-> <<>>, cls |-> S, any |-> FALSE, q |-> quant]
Dot(quant) == [lit |-> <<>>, cls |-> {}, any |-> TRUE, q |-> quant]

ClassMatch(tok, c) == IF tok.any THEN c # "\n" ELSE c \in tok.cls

\* The number of consecutive characters of s from position i that are in the
\* token's class.
RunLen(tok, s, i) ==
    CHOOSE n \in 0..(Len(s) + 1 - i) :
        /\ \A j \in i..(i + n - 1) : ClassMatch(tok, s[j])
        /\ (i + n > Len(s) \/ ~ClassMatch(tok, s[i + n]))

LitAt(tok, s, i) == /\ i + Len(tok.lit) - 1 <= Len(s)
                    /\ SubSeq(s, i, i + Len(tok.lit) - 1) = tok.lit

MinRep(tok) == IF tok.q \in {"1", "+"} THEN 1 ELSE 0
MaxRep(tok, s, i) == LET r == IF i > Len(s) THEN 0 ELSE RunLen(tok, s, i)
                     IN  IF tok.q \in {"1", "?"} /\ r > 1 THEN 1 ELSE r

NoMatch == [ok |-> FALSE, ends |-> <<>>]

\* MatchFrom(pat, k, s, i): match tokens k.. of pat against s from position i.
\* ends[j] is the position after the j-th of those tokens.
RECURSIVE MatchFrom(_, _, _, _)
RECURSIVE TryCount(_, _, _, _, _)
TryCount(pat, k, s, i, n) ==
    IF n < MinRep(pat[k]) THEN NoMatch
    ELSE LET r == MatchFrom(pat, k + 1, s, i + n)
         IN  IF r.ok THEN [ok |-> TRUE, ends |-> <<i + n>> \o r.ends]
             ELSE TryCount(pat, k, s, i, n - 1)
MatchFrom(pat, k, s, i) ==
    IF k > Len(pat) THEN [ok |-> TRUE, ends |-> <<>>]
    ELSE IF pat[k].q = "lit"
         THEN IF LitAt(pat[k], s, i)
              THEN LET r == MatchFrom(pat, k + 1, s, i + Len(pat[k].lit))
                   IN  [ok |-> r.ok,
                        ends |-> IF r.ok THEN <<i + Len(pat[k].lit)>> \o r.ends ELSE <<>>]
              ELSE NoMatch
         ELSE TryCount(pat, k, s, i, MaxRep(pat[k], s, i))

ReMatch(pat, s) == MatchFrom(pat, 1, s, 1)

\* The text the token at index k of the pattern matched.
Group(m, s, k) == SubSeq(s, IF k = 1 THEN 1 ELSE m.ends[k - 1], m.ends[k] - 1)

\* ------------------------------------------------------ class attributes
base_url == <<"h", "t", "t", "p", "s", ":", "/", "/", "s", "e", "e", "n", "u", "n",
              "s", "e", "e", "n", ".", "i", "n", "/", "e", "p", "i", "s", "o", "d",
              "e", "s", "/">>

\* r'https?://seenunseen.in/episodes/([0-9]+)/([0-9]+)/([0-9]+)/episode-([0-9]+)-.+'
ep_url_pattern ==
    << Lits(<<"h", "t", "t", "p">>), Cls({"s"}, "?"),
       Lits(<<":", "/", "/", "s", "e", "e", "n", "u", "n", "s", "e", "e", "n">>),
       Dot("1"),
       Lits(<<"i", "n", "/", "e", "p", "i", "s", "o", "d", "e", "s", "/">>),
       Cls(Digits, "+"), Lits(<<"/">>),
       Cls(Digits, "+"), Lits(<<"/">>),
       Cls(Digits, "+"), Lits(<<"/", "e", "p", "i", "s", "o", "d", "e", "-">>),
       Cls(Digits, "+"), Lits(<<"-">>), Dot("+") >>

\* The token index of each capture group of ep_url_pattern.
EpGroup1 == 6
EpGroup2 == 8
EpGroup3 == 10
EpGroup4 == 12

\* The target pattern with the subdomain class repeated one or more times.
target_url_pattern_plus ==
    << Lits(<<"h", "t", "t", "p">>), Cls({"s"}, "?"), Lits(<<":", "/", "/">>),
       Cls({"w", "."}, "+"), Lits(<<"a", "m", "a", "z", "o", "n">>),
       Dot("1"), Cls(Lower, "+") >>

\* r'https?://[w.]*amazon.[a-z]+'
target_url_pattern ==
    << Lits(<<"h", "t", "t", "p">>), Cls({"s"}, "?"), Lits(<<":", "/", "/">>),
       Cls({"w", "."}, "*"), Lits(<<"a", "m", "a", "z", "o", "n">>),
       Dot("1"), Cls(Lower, "+") >>

\* --------------------------------------------------------- datetime
IsLeap(y) == (y % 4 = 0 /\ y % 100 # 0) \/ y % 400 = 0
DaysInMonth(y, m) == IF m = 2 THEN (IF IsLeap(y) THEN 29 ELSE 28)
                     ELSE IF m \in {4, 6, 9, 11} THEN 30 ELSE 31

\* dt.datetime(year, month, day) raises ValueError outside these ranges.
ValidDate(y, m, d) == /\ y \in 1..9999
                      /\ m \in 1..12
                      /\ d >= 1 /\ d <= DaysInMonth(y, m)

\* ------------------------------------------------- classifier / extractor
\* Outcomes of __get_episode_info: a tuple, None, or a raised ValueError.
InfoNone == [kind |-> "None", num |-> 0, year |-> 0, month |-> 0, day |-> 0]
InfoError == [kind |-> "ValueError", num |-> 0, year |-> 0, month |-> 0, day |-> 0]
InfoTuple(n, y, m, d) == [kind |-> "tuple", num |-> n, year |-> y, month |-> m, day |-> d]

\* The extractor reading the episode number from group 3 (the day).
get_episode_info_group3(ep_url) ==
    LET res == ReMatch(ep_url_pattern, ep_url)
    IN  IF ~res.ok THEN InfoNone
        ELSE LET y == ParseInt(Group(res, ep_url, EpGroup1))
                 m == ParseInt(Group(res, ep_url, EpGroup2))
                 d == ParseInt(Group(res, ep_url, EpGroup3))
             IN  IF ~ValidDate(y, m, d) THEN InfoError
                 ELSE InfoTuple(ParseInt(Group(res, ep_url, EpGroup3)), y, m, d)

\* Lines 64-71.
get_episode_info(ep_url) ==
    LET res == ReMatch(ep_url_pattern, ep_url)
    IN  IF ~res.ok THEN InfoNone
        ELSE LET y == ParseInt(Group(res, ep_url, EpGroup1))
                 m == ParseInt(Group(res, ep_url, EpGroup2))
                 d == ParseInt(Group(res, ep_url, EpGroup3))
             IN  IF ~ValidDate(y, m, d) THEN InfoError
                 ELSE InfoTuple(ParseInt(Group(res, ep_url, EpGroup4)), y, m, d)

is_episode_url(s) == ReMatch(ep_url_pattern, s).ok

is_target_url(s) == ReMatch(target_url_pattern, s).ok

\* ===================== the classifier and the extractor on one input URL
\* The inputs: URLs built from components, so that what a URL embeds is known
\* independently of the pattern that reads it back.
Schemes == {<<"h", "t", "t", "p">>, <<"h", "t", "t", "p", "s">>, <<"f", "t", "p">>}
HttpSchemes == {<<"h", "t", "t", "p">>, <<"h", "t", "t", "p", "s">>}
Host == <<"s", "e", "e", "n", "u", "n", "s", "e", "e", "n", ".", "i", "n">>
Merchant == <<"a", "m", "a", "z", "o", "n">>

Pad2(n) == IF n < 10 THEN <<"0">> \o ToDigits(n) ELSE ToDigits(n)
Num(n, pad) == IF pad THEN Pad2(n) ELSE ToDigits(n)

\* <scheme>://seenunseen.in/episodes/<y>/<m>/<d>/episode-<n>-<slug>
EpisodeText(scheme, y, m, d, n, pad, slug) ==
    scheme \o <<":", "/", "/">> \o Host \o <<"/", "e", "p", "i", "s", "o", "d", "e", "s", "/">>
    \o ToDigits(y) \o <<"/">> \o Num(m, pad) \o <<"/">> \o Num(d, pad)
    \o <<"/", "e", "p", "i", "s", "o", "d", "e", "-">> \o Num(n, pad) \o <<"-">> \o slug

\* <scheme>://<sub>amazon.<tld><rest>
TargetText(scheme, sub, tld, rest) ==
    scheme \o <<":", "/", "/">> \o sub \o Merchant \o <<".">> \o tld \o rest

SeqsUpTo(S, n) == UNION {[1..k -> S] : k \in 0..n}

Years == {2020, 2021}
Slugs == {<<>>, <<"a">>}
SubChars == {"w", ".", "m"}
Subs == SeqsUpTo(SubChars, MaxSubLen)
        \cup {<<"a", "m", "a", "z", "o", "n", ".", "c", ".">>,
              <<"w", "a", "m", "a", "z", "o", "n", "-", "1", ".">>}
TldChars == {"c", "o", "1", "-"}
Tlds == SeqsUpTo(TldChars, MaxTldLen) \ {<<>>}
Rests == {<<>>, <<"/", "x">>}

EpisodeInputs ==
    {[kind |-> "episode", scheme |-> sc, y |-> y, m |-> m, d |-> d, n |-> n, pad |-> p,
      slug |-> sl, sub |-> <<>>, tld |-> <<>>, rest |-> <<>>,
      text |-> EpisodeText(sc, y, m, d, n, p, sl)] :
        sc \in Schemes, y \in Years, m \in 1..MaxMonth, d \in 1..MaxDay,
        n \in 0..MaxEpisode, p \in BOOLEAN, sl \in Slugs}

TargetInputs ==
    {[kind |-> "target", scheme |-> sc, y |-> 0, m |-> 0, d |-> 0, n |-> 0, pad |-> FALSE,
      slug |-> <<>>, sub |-> sb, tld |-> t, rest |-> r,
      text |-> TargetText(sc, sb, t, r)] :
        sc \in Schemes, sb \in Subs, t \in Tlds, r \in Rests}

NoOut == [bool |-> FALSE, info |-> InfoNone]

CallIsEpisodeUrl ==
    /\ u_fn = "none"
    /\ u_fn' = "is_episode_url"
    /\ u_out' = [bool |-> is_episode_url(u_in.text), info |-> InfoNone]
    /\ UNCHANGED <<u_in, pvars>>

CallGetEpisodeInfo ==
    /\ u_fn = "none"
    /\ u_fn' = "get_episode_info"
    /\ u_out' = [bool |-> FALSE, info |-> get_episode_info(u_in.text)]
    /\ UNCHANGED <<u_in, pvars>>

CallIsTargetUrl ==
    /\ u_fn = "none"
    /\ u_in.kind = "target"
    /\ u_fn' = "is_target_url"
    /\ u_out' = [bool |-> is_target_url(u_in.text), info |-> InfoNone]
    /\ UNCHANGED <<u_in, pvars>>

UrlNext == CallIsEpisodeUrl \/ CallGetEpisodeInfo \/ CallIsTargetUrl

\* =============================================================== get_books
\* ---- the remote site: what a request can return ----
Year == 2021
base_url_year == base_url \o ToDigits(Year) \o <<"/">>

Https == <<"h", "t", "t", "p", "s">>
Http == <<"h", "t", "t", "p">>

\* The episode links the index page may carry, by their components.  The
\* third has month 13: it matches ep_url_pattern and is no calendar date.
SiteEpisodes ==
    { [scheme |-> Https, y |-> Year, m |-> 1, d |-> 4, n |-> 7, slug |-> <<"a">>],
      [scheme |-> Http, y |-> Year, m |-> 12, d |-> 31, n |-> 12, slug |-> <<"b">>],
      [scheme |-> Https, y |-> Year, m |-> 13, d |-> 1, n |-> 9, slug |-> <<"c">>] }
LinkText(c) == EpisodeText(c.scheme, c.y, c.m, c.d, c.n, FALSE, c.slug)
SiteEpisodeUrls == {LinkText(c) : c \in SiteEpisodes}
EmbeddedNumber(u) == (CHOOSE c \in SiteEpisodes : LinkText(c) = u).n

AboutUrl == Https \o <<":", "/", "/">> \o Host \o <<"/", "a", "b", "o", "u", "t">>
AmazonIn == <<"h", "t", "t", "p", "s", ":", "/", "/", "w", "w", "w", ".", "a", "m", "a",
              "z", "o", "n", ".", "i", "n", "/", "d", "p", "/", "1">>
AmazonCom == <<"h", "t", "t", "p", ":", "/", "/", "a", "m", "a", "z", "o", "n", ".", "c",
               "o", "m">>
OtherUrl == <<"h", "t", "t", "p", "s", ":", "/", "/", "o", "t", "h", "e", "r", ".", "e",
              "x", "a", "m", "p", "l", "e", "/", "x">>

\* An <a> element: its href attribute (if it has one) and its contents.
Anchor(h, c) == [has_href |-> TRUE, href |-> h, contents |-> c]
BareAnchor == [has_href |-> FALSE, href |-> <<>>, contents |-> <<"top">>]

IndexAnchors == {Anchor(u, <<"episode">>) : u \in SiteEpisodeUrls}
                \cup {Anchor(AboutUrl, <<"about">>), BareAnchor}
EpisodeAnchors == { Anchor(AmazonIn, <<"Book A">>), Anchor(OtherUrl, <<"ignored">>),
                    Anchor(AmazonCom, <<>>), BareAnchor }

\* What __get_page_soup returns: None, or the parsed page (its <a> elements in
\* document order).  A BeautifulSoup object is truthy whatever it holds.
NonePage == [ok |-> FALSE, anchors |-> <<>>]
Page(as) == [ok |-> TRUE, anchors |-> as]
IndexPages == {Page(as) : as \in SeqsUpTo(IndexAnchors, MaxIndexAnchors)}
EpisodePages == {Page(as) : as \in SeqsUpTo(EpisodeAnchors, MaxPageAnchors)}
RequestExceptions == {"ConnectionError", "Timeout"}

SiteUrls == {base_url_year} \cup SiteEpisodeUrls

\* ---- log lines: sequences of parts ----
Text(t) == [text |-> t, url |-> <<>>, exc |-> ""]
UrlPart(u) == [text |-> "", url |-> u, exc |-> ""]
ExcPart(e) == [text |-> "", url |-> <<>>, exc |-> e]

\* f'[ {timestamp_str} ] : {msg}\n'
LogLine(msg) == <<Text("[ "), Text("%Y-%m-%d %H:%M:%S"), Text(" ] : ")>> \o msg
                \o <<Text("\n")>>

\* __write_log: what the lines written are after the call.
write_log(lines, msg) == IF log_file # "None" THEN Append(lines, LogLine(msg)) ELSE lines

\* Line 50: a plain string literal, not an f-string.
FailedMsg(u, e) == <<Text("Failed getting URL : {url} ; Error : {exp}")>>
BaseMsg == <<Text("Base page fetched")>>
EpisodeMsg(u) == <<Text("Episode fetched : "), UrlPart(u)>>

\* ---- results ----
NoResult == [kind |-> "unset", rows |-> <<>>, exc |-> ""]
ReturnNone == [kind |-> "None", rows |-> <<>>, exc |-> ""]
ReturnTable(rows) == [kind |-> "table", rows |-> rows, exc |-> ""]
Raise(e) == [kind |-> "raise", rows |-> <<>>, exc |-> e]

RECURSIVE Concat(_)
Concat(frames) == IF Len(frames) = 0 THEN <<>> ELSE Head(frames) \o Concat(Tail(frames))

NoPath == [none |-> TRUE, path |-> <<>>]
LogPath == [none |-> FALSE, path |-> <<"l", "o", "g", ".", "t", "x", "t">>]
Truthy(p) == ~p.none /\ Len(p.path) > 0

NoFetches == [u \in SiteUrls |-> <<>>]

\* ---- the page's anchors ----
\* The number of anchors of a page whose href satisfies is_target_url.
NumTargets(as) == Cardinality({j \in 1..Len(as) : as[j].has_href /\ is_target_url(as[j].href)})

\* The first anchor at which a comprehension over `as` raises, 0 if none does:
\* a['href'] raises KeyError on an anchor without href; with `needs_contents`,
\* a.contents[0] raises IndexError on a target anchor without contents.
Faulty(a, needs_contents) ==
    \/ ~a.has_href
    \/ needs_contents /\ is_target_url(a.href) /\ Len(a.contents) = 0
FirstFault(as, needs_contents) ==
    IF \E j \in 1..Len(as) : Faulty(as[j], needs_contents)
    THEN CHOOSE j \in 1..Len(as) :
            /\ Faulty(as[j], needs_contents)
            /\ \A i \in 1..(j - 1) : ~Faulty(as[i], needs_contents)
    ELSE 0
FaultName(a) == IF ~a.has_href THEN "KeyError" ELSE "IndexError"

\* Line 125: [a['href'] for a in base_page.findAll('a') if is_episode_url(a['href'])]
RECURSIVE EpisodeUrlList(_)
EpisodeUrlList(as) ==
    IF Len(as) = 0 THEN <<>>
    ELSE IF is_episode_url(Head(as).href) THEN <<Head(as).href>> \o EpisodeUrlList(Tail(as))
         ELSE EpisodeUrlList(Tail(as))

\* Line 125: set(...) of that list.
EpisodeUrlSet(as) == LET l == EpisodeUrlList(as) IN {l[j] : j \in 1..Len(l)}

RECURSIVE SelectTargets(_)
SelectTargets(as) ==
    IF Len(as) = 0 THEN <<>>
    ELSE IF is_target_url(Head(as).href) THEN <<Head(as)>> \o SelectTargets(Tail(as))
         ELSE SelectTargets(Tail(as))

\* Line 140: [a.contents[0] for a in ep_page.findAll('a') if is_target_url(a['href'])]
AmazonBooks(as) == LET t == SelectTargets(as) IN [j \in 1..Len(t) |-> t[j].contents[1]]

\* Lines 146-149: the frame of one episode.
EpisodeFrame(ep_num, books) == [j \in 1..Len(books) |-> [Episode |-> ep_num, Book |-> books[j]]]

\* ---- the actions ----
\* Line 174: a new invocation.  The history of the previous one is dropped.
GetBooks ==
    /\ pc \in {"idle", "returned", "raised"}
    /\ log_file' = IF Truthy(log_filepath) THEN "open" ELSE "None"
    /\ opens' = IF Truthy(log_filepath) THEN 1 ELSE 0
    /\ closes' = 0
    /\ slept' = 0
    /\ ep_links' = 0
    /\ log_lines' = <<>>
    /\ fetched' = NoFetches
    /\ result' = NoResult
    /\ base_page' = NonePage
    /\ ep_page' = NonePage
    /\ ep_urls' = {}
    /\ todo' = {}
    /\ df_list' = <<>>
    /\ url' = base_url_year
    /\ pc' = "get_base"
    /\ UNCHANGED <<log_filepath, req_delay_second, uvars>>

\* Lines 46-53, for the URL in `url`: req.get raises a RequestException, or
\* returns a page of the site.
GetPageSoup ==
    /\ pc \in {"get_base", "get_ep"}
    /\ \E out \in [ok : {FALSE}, anchors : {<<>>}, exc : RequestExceptions]
                  \cup [ok : {TRUE}, exc : {""},
                        anchors : IF pc = "get_base"
                                  THEN SeqsUpTo(IndexAnchors, MaxIndexAnchors)
                                  ELSE SeqsUpTo(EpisodeAnchors, MaxPageAnchors)] :
          LET page == IF out.ok THEN Page(out.anchors) ELSE NonePage
          IN  /\ log_lines' = IF out.ok THEN log_lines
                              ELSE write_log(log_lines, FailedMsg(url, out.exc))
              /\ fetched' = [fetched EXCEPT ![url] =
                                Append(@, [ok |-> out.ok, exc |-> out.exc,
                                           targets |-> NumTargets(out.anchors)])]
              /\ IF pc = "get_base"
                 THEN base_page' = page /\ ep_page' = ep_page /\ pc' = "base_fetched"
                 ELSE ep_page' = page /\ base_page' = base_page /\ pc' = "ep_fetched"
    /\ UNCHANGED <<log_filepath, req_delay_second, log_file, url, ep_urls, todo, df_list,
                   result, opens, closes, slept, ep_links, uvars>>

\* A None index page read as a page without links.
OnNoBasePage_Empty == /\ ep_urls' = {}
                      /\ todo' = {}
                      /\ pc' = "loop"
                      /\ UNCHANGED <<result, ep_links>>

\* What lines 122-125 do when the index page is None: base_page.findAll
\* raises AttributeError.
OnNoBasePage == /\ result' = Raise("AttributeError")
                /\ pc' = "finally"
                /\ UNCHANGED <<ep_urls, todo, ep_links>>

\* Lines 122-128.
BasePageFetched ==
    /\ pc = "base_fetched"
    /\ log_lines' = write_log(log_lines, BaseMsg)
    /\ df_list' = <<>>
    /\ IF ~base_page.ok THEN OnNoBasePage
       ELSE LET bad == FirstFault(base_page.anchors, FALSE)
            IN  IF bad # 0
                THEN /\ result' = Raise(FaultName(base_page.anchors[bad]))
                     /\ pc' = "finally"
                     /\ UNCHANGED <<ep_urls, todo, ep_links>>
                ELSE /\ ep_urls' = EpisodeUrlSet(base_page.anchors)
                     /\ todo' = EpisodeUrlSet(base_page.anchors)
                     /\ ep_links' = Len(EpisodeUrlList(base_page.anchors))
                     /\ pc' = "loop"
                     /\ UNCHANGED result
    /\ base_page' = NonePage
    /\ UNCHANGED <<log_filepath, req_delay_second, log_file, url, ep_page,
                   fetched, opens, closes, slept, uvars>>

\* Lines 129-133: the for loop yields the next element of the set (in no
\* fixed order) and sleeps if a delay is configured.
ForNext ==
    /\ pc = "loop"
    /\ \E u \in todo :
          /\ todo' = todo \ {u}
          /\ url' = u
    /\ slept' = IF req_delay_second # 0 THEN slept + 1 ELSE slept
    /\ pc' = "get_ep"
    /\ UNCHANGED <<log_filepath, req_delay_second, log_file, base_page, ep_page, ep_urls,
                   df_list, result, log_lines, fetched, opens, closes, ep_links, uvars>>

\* Lines 152-156: the loop is exhausted.
ForExit ==
    /\ pc = "loop"
    /\ todo = {}
    /\ result' = IF Len(df_list) = 0 THEN ReturnNone ELSE ReturnTable(Concat(df_list))
    /\ pc' = "finally"
    /\ UNCHANGED <<log_filepath, req_delay_second, log_file, url, base_page, ep_page,
                   ep_urls, todo, df_list, log_lines, fetched, opens, closes, slept,
                   ep_links, uvars>>

\* `break` in place of `continue`.
SkipEpisode_Break == /\ pc' = "loop"
                     /\ todo' = {}
                     /\ UNCHANGED <<df_list, result, log_lines>>

\* The failed request tried again.
SkipEpisode_Retry == /\ pc' = "get_ep"
                     /\ UNCHANGED <<todo, df_list, result, log_lines>>

\* Line 136, the page is None: `continue`.
SkipEpisode == /\ pc' = "loop"
               /\ UNCHANGED <<todo, df_list, result, log_lines>>

\* Lines 137-150, the page was fetched.
ProcessEpisode ==
    /\ log_lines' = write_log(log_lines, EpisodeMsg(url))
    /\ UNCHANGED todo
    /\ LET bad == FirstFault(ep_page.anchors, TRUE)
           books == AmazonBooks(ep_page.anchors)
           ep_info == get_episode_info(url)
       IN  IF bad # 0
           THEN /\ result' = Raise(FaultName(ep_page.anchors[bad]))
                /\ pc' = "finally"
                /\ UNCHANGED df_list
           ELSE IF Len(books) = 0
           THEN /\ pc' = "loop"
                /\ UNCHANGED <<df_list, result>>
           ELSE IF ep_info.kind # "tuple"
           THEN /\ result' = Raise(IF ep_info.kind = "None" THEN "TypeError"
                                   ELSE ep_info.kind)
                /\ pc' = "finally"
                /\ UNCHANGED df_list
           ELSE /\ df_list' = Append(df_list, EpisodeFrame(ep_info.num, books))
                /\ pc' = "loop"
                /\ UNCHANGED result

\* Lines 136-150: the rest of the loop body, after the fetch.
EpisodeFetched ==
    /\ pc = "ep_fetched"
    /\ IF ~ep_page.ok THEN SkipEpisode ELSE ProcessEpisode
    /\ ep_page' = NonePage
    /\ UNCHANGED <<log_filepath, req_delay_second, log_file, url, base_page, ep_urls,
                   fetched, opens, closes, slept, ep_links, uvars>>

\* The close in the else clause: skipped when an exception leaves.
Finally_ElseOnly ==
    /\ pc = "finally"
    /\ IF log_file # "None" /\ result.kind # "raise"
       THEN log_file' = "None" /\ closes' = closes + 1
       ELSE UNCHANGED <<log_file, closes>>
    /\ pc' = IF result.kind = "raise" THEN "raised" ELSE "returned"
    /\ UNCHANGED <<log_filepath, req_delay_second, url, base_page, ep_page, ep_urls, todo,
                   df_list, result, log_lines, fetched, opens, slept, ep_links, uvars>>

\* Lines 176-185: the result or the exception leaves through the finally
\* clause.
Finally ==
    /\ pc = "finally"
    /\ IF log_file # "None"
       THEN log_file' = "None" /\ closes' = closes + 1
       ELSE UNCHANGED <<log_file, closes>>
    /\ pc' = IF result.kind = "raise" THEN "raised" ELSE "returned"
    /\ UNCHANGED <<log_filepath, req_delay_second, url, base_page, ep_page, ep_urls, todo,
                   df_list, result, log_lines, fetched, opens, slept, ep_links, uvars>>

\* ---- specifications ----
IdleInput == [kind |-> "none", scheme |-> <<>>, y |-> 0, m |-> 0, d |-> 0, n |-> 0,
              pad |-> FALSE, slug |-> <<>>, sub |-> <<>>, tld |-> <<>>, rest |-> <<>>,
              text |-> <<>>]

\* Lines 31-34: the constructed object.
Constructed ==
    /\ log_file = "None"
    /\ pc = "idle"
    /\ url = <<>>
    /\ base_page = NonePage
    /\ ep_page = NonePage
    /\ ep_urls = {}
    /\ todo = {}
    /\ df_list = <<>>
    /\ result = NoResult
    /\ log_lines = <<>>
    /\ fetched = NoFetches
    /\ opens = 0
    /\ closes = 0
    /\ slept = 0
    /\ ep_links = 0

Init ==
    /\ log_filepath \in {NoPath, LogPath}
    /\ req_delay_second \in {0, 1}
    /\ Constructed
    /\ u_in = IdleInput
    /\ u_fn = "none"
    /\ u_out = NoOut

Next == \/ GetBooks
        \/ GetPageSoup
        \/ BasePageFetched
        \/ ForNext
        \/ ForExit
        \/ EpisodeFetched
        \/ Finally

Spec == Init /\ [][Next]_vars

\* The classifier and the extractor applied to every input URL of the bounds.
UrlInit ==
    /\ log_filepath = NoPath
    /\ req_delay_second = 0
    /\ Constructed
    /\ u_in \in EpisodeInputs \cup TargetInputs
    /\ u_fn = "none"
    /\ u_out = NoOut

UrlSpec == UrlInit /\ [][UrlNext]_vars

\* ================================================================ claims
Outside == pc \in {"idle", "returned", "raised"}
Exited == pc \in {"returned", "raised"}

LastFetch(u) == fetched[u][Len(fetched[u])]
FetchedOk(u) == Len(fetched[u]) > 0 /\ LastFetch(u).ok
FetchFailed(u) == Len(fetched[u]) > 0 /\ ~LastFetch(u).ok

RECURSIVE SumTargets(_)
SumTargets(U) == IF U = {} THEN 0
                 ELSE LET u == CHOOSE x \in U : TRUE
                      IN  (IF FetchedOk(u) THEN LastFetch(u).targets ELSE 0)
                          + SumTargets(U \ {u})

\* The retailer anchors of all the episode pages fetched in this invocation.
TotalTargets == SumTargets(SiteEpisodeUrls)

\* C1: with a log path configured, the log is opened once when get_books
\* starts and stays open while it runs; on every exit (a table or None
\* returned, an exception raised) it has been closed once and self.log_file is
\* None again; outside an invocation the scraper holds no open handle.
C1_LogLifecycle ==
    /\ Outside => log_file = "None"
    /\ Truthy(log_filepath) =>
          /\ ~Outside => (log_file = "open" /\ opens = 1 /\ closes = 0)
          /\ Exited => (opens = 1 /\ closes = 1)

\* An invocation with a log path that ended in an exception, its log closed.
C1_Witness == /\ Truthy(log_filepath)
              /\ pc = "raised"
              /\ closes = 1
              /\ log_file = "None"

RowHasSource(row) ==
    \E u \in SiteEpisodeUrls :
        /\ FetchedOk(u)
        /\ LastFetch(u).targets >= 1
        /\ row.Episode = EmbeddedNumber(u)

\* C2: every row of the accumulator (and of the table returned) carries the
\* episode number embedded in a URL whose page was fetched and held at least
\* one anchor with a target href; no row comes from a failed fetch or from a
\* page without such an anchor.
C2_RowsHaveSource ==
    /\ \A f \in 1..Len(df_list) : \A j \in 1..Len(df_list[f]) : RowHasSource(df_list[f][j])
    /\ \A j \in 1..Len(result.rows) : RowHasSource(result.rows[j])

\* A table returned when one episode's request failed and another page gave
\* the rows.
C2_Witness == /\ pc = "returned"
              /\ result.kind = "table"
              /\ \E u \in ep_urls : FetchFailed(u)
              /\ \E u \in ep_urls : FetchedOk(u) /\ LastFetch(u).targets >= 1

BaseFetchedOk == FetchedOk(base_url_year)
BaseFetchFailed == FetchFailed(base_url_year)

\* C3: once get_books has ended with the index page fetched, it has returned
\* None exactly when no episode page held a retailer anchor, and otherwise a
\* table with one row per retailer anchor of the episode pages fetched.
C3_Claim ==
    (Exited /\ BaseFetchedOk) =>
        IF TotalTargets = 0 THEN result.kind = "None"
        ELSE result.kind = "table" /\ Len(result.rows) = TotalTargets

\* C4: when the request for the index page fails, get_books returns neither a
\* table nor None: it ends by raising, and no episode page is requested.
C4_IndexFailureRaises ==
    BaseFetchFailed =>
        /\ pc \in {"base_fetched", "finally", "raised"}
        /\ pc \in {"finally", "raised"} => result.kind = "raise"
        /\ \A u \in SiteEpisodeUrls : fetched[u] = <<>>

C4_Witness == BaseFetchFailed /\ pc = "raised" /\ result.kind = "raise"

\* C5: a failed request for an episode page is skipped: the step that sees it
\* adds no row, raises nothing and leaves the rest of the loop as it was; and
\* when get_books returns, every distinct episode URL has been requested.
C5_EpisodeFailureSkipped ==
    /\ [](pc = "returned" => \A u \in ep_urls : Len(fetched[u]) >= 1)
    /\ [][(pc = "ep_fetched" /\ ~ep_page.ok) =>
             (pc' = "loop" /\ df_list' = df_list /\ result' = result /\ todo' = todo)]_vars

\* A return after one episode's request failed and another gave rows.
C5_Witness == /\ pc = "returned"
              /\ result.kind = "table"
              /\ \E u \in ep_urls : FetchFailed(u)
              /\ \E u \in ep_urls : FetchedOk(u)
              /\ Cardinality(ep_urls) >= 2

IsFailLine(l) == \E e \in RequestExceptions, u \in SiteUrls : l = LogLine(FailedMsg(u, e))

\* C6: with a log path and the index page fetched, the lines of an invocation
\* that has ended are: "Base page fetched" first, then one line per distinct
\* episode URL, a failure line if its request failed and an "Episode fetched"
\* line naming it if it succeeded.
C6_Claim ==
    (Truthy(log_filepath) /\ Exited /\ BaseFetchedOk) =>
        /\ Len(log_lines) = 1 + Cardinality(ep_urls)
        /\ log_lines[1] = LogLine(BaseMsg)
        /\ \A u \in ep_urls :
              FetchedOk(u) =>
                  Cardinality({i \in 1..Len(log_lines) : log_lines[i] = LogLine(EpisodeMsg(u))}) = 1
        /\ Cardinality({i \in 1..Len(log_lines) : IsFailLine(log_lines[i])})
              = Cardinality({u \in ep_urls : FetchFailed(u)})

\* C7: for every URL is_episode_url accepts, built from (y, m, d, n, slug),
\* __get_episode_info returns (n, date(y, m, d)): never None, never an error.
C7_Claim ==
    (u_fn = "get_episode_info" /\ is_episode_url(u_in.text)) =>
        u_out.info = InfoTuple(u_in.n, u_in.y, u_in.m, u_in.d)

OnlyWDot(sub) == \A i \in 1..Len(sub) : sub[i] \in {"w", "."}
AllLower(t) == \A i \in 1..Len(t) : t[i] \in Lower
HasDigitOrHyphen(t) == \E i \in 1..Len(t) : t[i] \in Digits \cup {"-"}

\* What is left of s after its leading 'w' and '.' characters.
RECURSIVE DropWDot(_)
DropWDot(s) == IF Len(s) > 0 /\ Head(s) \in {"w", "."} THEN DropWDot(Tail(s)) ELSE s

\* t starts with the merchant token, one character and a lowercase letter.
MerchantLike(t) == /\ Len(t) >= Len(Merchant) + 2
                   /\ SubSeq(t, 1, Len(Merchant)) = Merchant
                   /\ t[Len(Merchant) + 1] # "\n"
                   /\ t[Len(Merchant) + 2] \in Lower

\* C8 as stated: for http(s) URLs, true when the subdomain is made of 'w' and
\* '.' and the TLD of lowercase letters; false when the TLD has a digit or a
\* hyphen, or the subdomain has another character.
C8_Claim ==
    (u_fn = "is_target_url" /\ u_in.scheme \in HttpSchemes) =>
        /\ (OnlyWDot(u_in.sub) /\ AllLower(u_in.tld)) => u_out.bool
        /\ (HasDigitOrHyphen(u_in.tld) \/ ~OnlyWDot(u_in.sub)) => ~u_out.bool

\* C8 amended: true for http(s) URLs whose subdomain is made of 'w' and '.'
\* and whose TLD is all lowercase letters; false when the subdomain is made of
\* 'w' and '.' and the TLD does not begin with a lowercase letter; false when
\* the subdomain has another character, unless what follows its leading 'w'
\* and '.' characters itself starts with the merchant token, one character
\* and a lowercase letter; false for every other scheme.
C8_TargetPrefixMatch ==
    u_fn = "is_target_url" =>
        /\ (u_in.scheme \in HttpSchemes /\ OnlyWDot(u_in.sub) /\ AllLower(u_in.tld))
              => u_out.bool
        /\ (OnlyWDot(u_in.sub) /\ u_in.tld[1] \notin Lower) => ~u_out.bool
        /\ (~OnlyWDot(u_in.sub)
            /\ ~MerchantLike(DropWDot(u_in.sub) \o Merchant \o <<".">> \o u_in.tld \o u_in.rest))
              => ~u_out.bool
        /\ u_in.scheme \notin HttpSchemes => ~u_out.bool

\* A hyphenated TLD that begins with a lowercase letter, accepted.
C8_Witness == /\ u_fn = "is_target_url"
              /\ u_in.sub = <<"w", ".">>
              /\ u_in.tld = <<"c", "-">>
              /\ u_out.bool

Contains(line, part) == \E k \in 1..Len(line) : line[k] = part

\* C9: with the log open, a failed request writes exactly one line, which
\* holds the URL requested and the error, and returns None; a successful one
\* writes nothing.
C9_Claim ==
    [][(pc \in {"get_base", "get_ep"} /\ log_file = "open") =>
          LET o == fetched'[url][Len(fetched'[url])]
              page == IF pc = "get_base" THEN base_page' ELSE ep_page'
          IN  IF o.ok THEN log_lines' = log_lines /\ page.ok
              ELSE /\ ~page.ok
                   /\ Len(log_lines') = Len(log_lines) + 1
                   /\ SubSeq(log_lines', 1, Len(log_lines)) = log_lines
                   /\ Contains(log_lines'[Len(log_lines')], UrlPart(url))
                   /\ Contains(log_lines'[Len(log_lines')], ExcPart(o.exc))]_vars

\* C10: in one invocation no URL is requested twice, whether the index page
\* links to it several times or its request failed, and when the invocation
\* has ended the index page has been requested exactly once.
C10_FetchedAtMostOnce ==
    /\ \A u \in SiteUrls : Len(fetched[u]) <= 1
    /\ Exited => Len(fetched[base_url_year]) = 1

\* An index page with two links to one episode, whose only request failed.
C10_Witness == /\ pc = "returned"
               /\ ep_links = 2
               /\ Cardinality(ep_urls) = 1
               /\ \A u \in ep_urls : FetchFailed(u) /\ Len(fetched[u]) = 1

====
